---- MODULE Spec2Model ----
(***************************************************************************)
(* Model of the statistics aggregation and flush engine of                 *)
(* packages/plugin-status/server/stats.ts: the Stat accumulators           *)
(* (Numerical, Recorded), updateStats, the event handlers registered by    *)
(* Statistics.apply, the statements handed to db.query and their effect    *)
(* on the stored tables, and the snapshot cache of Statistics.patch.       *)
(***************************************************************************)
EXTENDS Integers, Sequences, FiniteSets, TLC

\* ------------------------------------------------------------------ bounds
\* Number of counted handler invocations in one behaviour.
MaxEvents == 2
\* Number of times the wall clock is advanced in one behaviour.
MaxTicks == 2
\* Number of increments when one accumulator is driven alone.
MaxAdds == 3
\* Number of Statistics.patch requests in one behaviour.
MaxPatches == 3
\* Longest list of records handed to average.
MaxStats == 6
\* Number of daily records the snapshot's history query returns.
MaxHistory == 2
\* Number of days the fetched hourly records span.
MaxDays == 6

\* --------------------------------------------------------------- constants
REFRESH_INTERVAL == 60000
RECENT_LENGTH == 5

HourMs == 60 * 60 * 1000
DayMs == 24 * HourMs

dailyFields == {"command", "dialogue", "botSend", "botReceive", "group"}
hourlyFields == {"total", "group", "private", "command", "dialogue"}
longtermFields == {"message"}

\* Inputs of the handlers: command names, dialogue ids, bot ids, group ids.
CommandNames == {"help"}
DialogueIds == {"d1"}
SelfIds == {"bot"}
GroupIds == {"g1", "g2"}
\* for ... in over the ledger visits integer-like keys in ascending order.
GroupOrder == <<"g1", "g2">>

\* The keys a Recorded field is incremented with by the handlers.
FieldKeys(field) ==
  CASE field = "command" -> CommandNames
    [] field = "dialogue" -> DialogueIds
    [] field = "botSend" -> SelfIds
    [] field = "botReceive" -> SelfIds
    [] field = "group" -> GroupIds

\* ------------------------------------------------------------------- dates
\* Date.getHours, toLocaleDateString('zh-CN') and Time.getDateNumber of an
\* instant in milliseconds (local time taken as UTC).  A date string is the
\* tuple <<day>>, an hour string `${dateString}-${hour}:00` is <<day, hour>>.
getHours(t) == (t \div HourMs) % 24
toLocaleDateString(t) == <<t \div DayMs>>
HourStringMutantNoDate(t) == <<0, getHours(t)>>
HourString(t) == toLocaleDateString(t) \o <<getHours(t)>>
getDateNumber(t) == t \div DayMs

\* --------------------------------------------------------------- Stat class
EmptyRecord == [k \in {} |-> 0]
\* private key: string = null
NullKey == <<>>

Put(f, k, v) == [x \in DOMAIN f \cup {k} |-> IF x = k THEN v ELSE f[x]]

\* config.setup
ConfigSetup(kind) == IF kind = "Numerical" THEN 0 ELSE EmptyRecord

\* config.update: the SET clause of one field, none when there is nothing to add
\* (a sequence of no or one delta).
ConfigUpdateMutantAlways(kind, value) == <<value>>
ConfigUpdate(kind, value) ==
  IF kind = "Numerical"
    THEN IF value = 0 THEN <<>> ELSE <<value>>
    ELSE IF DOMAIN value = {} THEN <<>> ELSE <<value>>

\* config.create: the VALUES entry of one field ('' + value, JSON_OBJECT(...)).
ConfigCreate(kind, value) == value

\* Stat.clear
ClearMutantKeep(kind, fields, data) ==
  [f \in fields |-> IF f \in DOMAIN data THEN data[f] ELSE ConfigSetup(kind)]
Clear(kind, fields, data) == [f \in fields |-> ConfigSetup(kind)]

\* Stat constructor
NewStat(kind, fields) ==
  [data |-> Clear(kind, fields, EmptyRecord), key |-> NullKey]

\* The statement Stat.update pushes: UPDATE ... SET updates WHERE time = date,
\* or INSERT ... VALUES ... ON DUPLICATE KEY UPDATE updates.
Statement(kind, table, where, values, set) ==
  [kind |-> kind, table |-> table, where |-> where, values |-> values, set |-> set]

StatUpdates(kind, stat) ==
  [f \in {g \in DOMAIN stat.data : ConfigUpdate(kind, stat.data[g]) # <<>>}
     |-> ConfigUpdate(kind, stat.data[f])[1]]

\* date === this.key: whether Stat.update takes the UPDATE branch.
SameKeyMutantNever(date, key) == FALSE
SameKey(date, key) == date = key

\* this.key = date: the key the accumulator remembers after an insert.
NextKeyMutantStale(date, key) == key
NextKey(date, key) == date

\* Stat.update(date, sqls): the accumulator afterwards and the statements pushed.
StatUpdate(kind, table, stat, date) ==
  LET updates == StatUpdates(kind, stat)
      fields == DOMAIN stat.data
  IN  IF DOMAIN updates = {}
        THEN [stat |-> stat, sqls |-> <<>>]
        ELSE IF SameKey(date, stat.key)
          THEN [stat |-> [data |-> Clear(kind, fields, stat.data), key |-> stat.key],
                sqls |-> <<Statement("update", table, date, EmptyRecord, updates)>>]
          ELSE [stat |-> [data |-> Clear(kind, fields, stat.data),
                          key |-> NextKey(date, stat.key)],
                sqls |-> <<Statement("insert", table, date,
                                     [f \in fields |-> ConfigCreate(kind, stat.data[f])],
                                     updates)>>]

\* Stat.Recorded.add: stat[key] = (stat[key] || 0) + 1
AddMutantSet(data, field, key) == [data EXCEPT ![field] = Put(@, key, 1)]
Add(data, field, key) ==
  [data EXCEPT ![field] =
     Put(@, key, (IF key \in DOMAIN @ THEN @[key] ELSE 0) + 1)]

\* hourly.data[field] += 1, longterm.data.message += 1
Inc(data, field) == [data EXCEPT ![field] = @ + 1]


\* ------------------------------------------------------- persistence sink
\* JSON_SET(col, '$."k"', IFNULL(col->'$."k"', 0) + v, ...): per-key merge.
JsonSetMutantOverwrite(col, delta) ==
  [k \in DOMAIN col \cup DOMAIN delta |->
     IF k \in DOMAIN delta THEN delta[k] ELSE col[k]]
JsonSet(col, delta) ==
  [k \in DOMAIN col \cup DOMAIN delta |->
     IF k \in DOMAIN delta
       THEN (IF k \in DOMAIN col THEN col[k] ELSE 0) + delta[k]
       ELSE col[k]]

\* The SET clause of a statement applied to a stored row.
MergeRow(table, row, set) ==
  IF table = "stats_daily"
    THEN [f \in DOMAIN row |->
            IF f \in DOMAIN set THEN JsonSet(row[f], set[f]) ELSE row[f]]
    ELSE [f \in DOMAIN row |->
            IF f \in DOMAIN set THEN row[f] + set[f] ELSE row[f]]

\* One statement executed by the database: UPDATE touches the row only when it
\* exists; INSERT ... ON DUPLICATE KEY UPDATE creates it or merges into it.
ApplyStmt(db, s) ==
  CASE s.kind = "update" ->
         IF s.where \in DOMAIN db[s.table]
           THEN [db EXCEPT ![s.table][s.where] = MergeRow(s.table, @, s.set)]
           ELSE db
    [] s.kind = "insert" ->
         IF s.where \in DOMAIN db[s.table]
           THEN [db EXCEPT ![s.table][s.where] = MergeRow(s.table, @, s.set)]
           ELSE [db EXCEPT ![s.table] = Put(@, s.where, s.values)]
    [] s.kind = "activity" ->
         IF s.where \in DOMAIN db.channel
           THEN [db EXCEPT !.channel[s.where] = JsonSet(@, s.set)]
           ELSE db

RECURSIVE ApplyAll(_, _)
ApplyAll(db, sqls) ==
  IF sqls = <<>> THEN db ELSE ApplyAll(ApplyStmt(db, Head(sqls)), Tail(sqls))

\* ------------------------------------------------------------ statements read back
StatNames == {"hourly", "daily", "longterm"}
KindOf(acc) == IF acc = "daily" THEN "Recorded" ELSE "Numerical"
TableOf(acc) ==
  CASE acc = "hourly" -> "stats_hourly"
    [] acc = "daily" -> "stats_daily"
    [] acc = "longterm" -> "stats_longterm"

\* The value a field map (a SET clause or a VALUES list) carries for a slot.
Carried(map, s) ==
  IF s[2] \notin DOMAIN map
    THEN 0
    ELSE IF s[1] = "daily"
      THEN IF s[3] \in DOMAIN map[s[2]] THEN map[s[2]][s[3]] ELSE 0
      ELSE map[s[2]]

\* The delta a statement adds for a slot.
Delta(st, s) ==
  IF s[1] = "groups"
    THEN IF st.kind = "activity" /\ st.where = s[3]
           THEN st.set[CHOOSE n \in DOMAIN st.set : TRUE]
           ELSE 0
    ELSE IF st.kind # "activity" /\ st.table = TableOf(s[1])
      THEN Carried(st.set, s)
      ELSE 0

RECURSIVE SumDelta(_, _)
SumDelta(sqls, s) ==
  IF sqls = <<>> THEN 0 ELSE Delta(Head(sqls), s) + SumDelta(Tail(sqls), s)

\* ------------------------------------------------------------------- state
VARIABLES
  daily, hourly, longterm,   \* the three accumulators (data, key)
  groups,                    \* the activity ledger
  lastUpdate, updateHour, updateNumber,
  now, ticks,                \* the wall clock (ms) and how often it advanced
  queue,                     \* db.query calls in flight, in dispatch order
  stored,                    \* the stored tables
  proc,                      \* "running" or "exited"
  nEvents,                   \* counted handler invocations so far
  incs,                      \* increments per slot since the last triggered flush
  incTotal,                  \* increments per slot since the start
  pendingWin,                \* per accumulator, the hours its pending increments were made in
  emitted,                   \* every statement emitted so far, in order
  flushedTotal,              \* per slot, the sum of the deltas emitted so far
  lastCheck,                 \* the flush check made by the last step, if it made one
  failed,                    \* whether some write has failed
  lost,                      \* the failed writes: how many, and the statements not applied
  connected,                 \* whether handleSigInt is registered for SIGINT
  settled,                   \* number of statements whose write has settled
  cachedDate, cachedData,    \* Statistics: the cached date and the cached promise
  comps,                     \* the getStatusData calls made so far (the promises)
  waiting,                   \* patch requests suspended at await cachedData
  delivered,                 \* patch requests that got their result
  avg,                       \* a call of average: its argument and its result
  snap                       \* a getStatusData call assembling extension.groups

vars == <<daily, hourly, longterm, groups, lastUpdate, updateHour, updateNumber,
          now, ticks, queue, stored, proc, nEvents, incs, incTotal, pendingWin,
          emitted, flushedTotal, lastCheck, failed, lost, connected, settled,
          cachedDate, cachedData, comps, waiting, delivered, avg, snap>>

snapVars == <<cachedDate, cachedData, comps, waiting, delivered>>
deriveVars == <<avg, snap>>
engineVars == <<daily, hourly, longterm, groups, lastUpdate, updateHour, updateNumber,
                queue, stored, proc, nEvents, incs, incTotal, pendingWin, emitted,
                flushedTotal, lastCheck, failed, lost, connected, settled>>

Accs == {"hourly", "daily", "longterm", "groups"}

\* A slot is one counter: <<accumulator, field, key>>.
Slots ==
  {<<"hourly", f, "">> : f \in hourlyFields}
    \cup UNION {{<<"daily", f, k>> : k \in FieldKeys(f)} : f \in dailyFields}
    \cup {<<"longterm", f, "">> : f \in longtermFields}
    \cup {<<"groups", "", g>> : g \in GroupIds}

ZeroSlots == [s \in Slots |-> 0]

\* Module load at 23:58:30 of day 0.
StartTimes == {23 * HourMs + 58 * 60000 + 30000}
\* The clock advances by half a refresh interval or by just over one.
Steps == {REFRESH_INTERVAL \div 2, REFRESH_INTERVAL + 1}

\* No flush check in the last step.
NoCheck == [checked |-> FALSE]

InitProgram ==
  /\ daily = NewStat("Recorded", dailyFields)
  /\ hourly = NewStat("Numerical", hourlyFields)
  /\ longterm = NewStat("Numerical", longtermFields)
  /\ groups = EmptyRecord
  /\ now \in StartTimes
  /\ lastUpdate = now
  /\ updateHour = getHours(now)
  /\ updateNumber = getDateNumber(now)
  /\ ticks = 0
  /\ queue = <<>>
  /\ stored = [stats_hourly |-> EmptyRecord, stats_daily |-> EmptyRecord,
               stats_longterm |-> EmptyRecord,
               channel |-> [g \in GroupIds |-> EmptyRecord]]
  /\ proc = "running"
  /\ nEvents = 0
  /\ incs = ZeroSlots
  /\ incTotal = ZeroSlots
  /\ pendingWin = [a \in Accs |-> {}]
  /\ emitted = <<>>
  /\ flushedTotal = ZeroSlots
  /\ lastCheck = NoCheck
  /\ failed = FALSE
  /\ lost = [n |-> 0, stmts |-> <<>>]
  /\ connected = FALSE
  /\ settled = 0
  \* let cachedDate: string; let cachedData: Promise<CachedData>
  /\ cachedDate = NullKey
  /\ cachedData = 0
  /\ comps = <<>>
  /\ waiting = {}
  /\ delivered = {}

\* No call of average yet.
AvgIdle == [in |-> <<>>, called |-> FALSE]

\* No getStatusData call assembling groups.
SnapIdle == [phase |-> "idle"]

Init ==
  /\ InitProgram
  /\ avg = AvgIdle
  /\ snap = SnapIdle

\* ------------------------------------------------------------- updateStats
\* forced || +date - +lastUpdate > REFRESH_INTERVAL || dateHour !== updateHour
TriggerMutantAtLeast(forced, date) ==
  \/ forced
  \/ date - lastUpdate >= REFRESH_INTERVAL
  \/ getHours(date) # updateHour
Trigger(forced, date) ==
  \/ forced
  \/ date - lastUpdate > REFRESH_INTERVAL
  \/ getHours(date) # updateHour

\* for (const id in groups) sqls.push(UPDATE channel SET activity = JSON_SET(...))
LedgerSqlsMutantFirst(g, number) ==
  LET ids == SelectSeq(GroupOrder, LAMBDA id : id \in DOMAIN g)
  IN  [i \in 1..(IF ids = <<>> THEN 0 ELSE 1) |->
         Statement("activity", "channel", ids[i], EmptyRecord, number :> g[ids[i]])]
LedgerSqls(g, number) ==
  LET ids == SelectSeq(GroupOrder, LAMBDA id : id \in DOMAIN g)
  IN  [i \in 1..Len(ids) |->
         Statement("activity", "channel", ids[i], EmptyRecord, number :> g[ids[i]])]

\* delete groups[id], for every id: the ledger after the statements are pushed.
LedgerAfterMutantKeep(g) == g
LedgerAfter(g) == EmptyRecord

\* Bookkeeping of the increments a handler made (slots) before its flush check.
IncsAfter(slots) == [s \in Slots |-> incs[s] + (IF s \in slots THEN 1 ELSE 0)]
WinAfter(slots) ==
  [a \in Accs |->
     pendingWin[a] \cup (IF \E s \in slots : s[1] = a THEN {HourString(now)} ELSE {})]
Counted(slots) ==
  /\ nEvents' = nEvents + 1
  /\ incTotal' = [s \in Slots |-> incTotal[s] + (IF s \in slots THEN 1 ELSE 0)]

\* updateStats(db, forced), called with the accumulators h, d, l and the ledger
\* g as the calling handler left them; slots are the counters it incremented.
updateStats(forced, h, d, l, g, slots) ==
  LET date == now
      dateHour == getHours(date)
      seen == [checked |-> TRUE, forced |-> forced,
               lastUpdate |-> lastUpdate, updateHour |-> updateHour,
               pre |-> [hourly |-> h.data, daily |-> d.data,
                        longterm |-> l.data, groups |-> g],
               keys |-> [hourly |-> h.key, daily |-> d.key, longterm |-> l.key],
               incs |-> IncsAfter(slots), wins |-> WinAfter(slots),
               queued |-> Len(queue)]
  IN  IF Trigger(forced, date)
        THEN LET number == getDateNumber(date)
                 dateString == toLocaleDateString(date)
                 hourString == HourString(date)
                 uh == StatUpdate("Numerical", "stats_hourly", h, hourString)
                 ud == StatUpdate("Recorded", "stats_daily", d, dateString)
                 ul == StatUpdate("Numerical", "stats_longterm", l, dateString)
                 sqls == uh.sqls \o ud.sqls \o ul.sqls \o LedgerSqls(g, number)
             IN  /\ lastCheck' = seen @@ [flushed |-> TRUE, stmts |-> sqls]
                 /\ lastUpdate' = date
                 /\ updateHour' = dateHour
                 /\ updateNumber' = number
                 /\ hourly' = uh.stat
                 /\ daily' = ud.stat
                 /\ longterm' = ul.stat
                 /\ groups' = LedgerAfter(g)
                 \* if (!sqls.length) return; await db.query(sqls)
                 /\ queue' = IF lastCheck'.stmts = <<>>
                               THEN queue
                               ELSE Append(queue, [sqls |-> lastCheck'.stmts,
                                                   forced |-> forced])
                 \* updateStats(db, true).finally(() => process.exit())
                 /\ proc' = IF forced /\ lastCheck'.stmts = <<>> THEN "exited" ELSE proc
                 /\ emitted' = emitted \o lastCheck'.stmts
                 /\ flushedTotal' =
                      [s \in Slots |-> flushedTotal[s] + SumDelta(lastCheck'.stmts, s)]
                 /\ incs' = ZeroSlots
                 /\ pendingWin' = [a \in Accs |-> {}]
        ELSE /\ hourly' = h
             /\ daily' = d
             /\ longterm' = l
             /\ groups' = g
             /\ incs' = IncsAfter(slots)
             /\ pendingWin' = WinAfter(slots)
             /\ lastCheck' = seen @@ [flushed |-> FALSE, stmts |-> <<>>]
             /\ UNCHANGED <<lastUpdate, updateHour, updateNumber, queue, proc, emitted,
                            flushedTotal>>

\* A handler that increments without a flush check.
NoCheckAfterMutantCheck(h, d, l, g, slots) == updateStats(FALSE, h, d, l, g, slots)
NoCheckAfter(h, d, l, g, slots) ==
  /\ hourly' = h
  /\ daily' = d
  /\ longterm' = l
  /\ groups' = g
  /\ incs' = IncsAfter(slots)
  /\ pendingWin' = WinAfter(slots)
  /\ lastCheck' = NoCheck
  /\ UNCHANGED <<lastUpdate, updateHour, updateNumber, queue, proc, emitted,
                 flushedTotal>>

\* ---------------------------------------------------------------- handlers
\* Inputs of ctx.before('command'): the command name split at the dots.
CommandInputs == {<<"help">>, <<"help", "sub">>}

\* ctx.before('command', ...)
BeforeCommand ==
  /\ proc = "running"
  /\ connected
  /\ nEvents < MaxEvents
  /\ \E command \in CommandInputs, isTest \in BOOLEAN :
       /\ ~isTest
       /\ LET name == command[1]
          IN  /\ updateStats(FALSE, hourly, [daily EXCEPT !.data = Add(@, "command", name)],
                             longterm, groups, {<<"daily", "command", name>>})
              /\ Counted({<<"daily", "command", name>>})
  /\ UNCHANGED <<now, ticks, stored, failed, lost, connected, settled>>
  /\ UNCHANGED snapVars
  /\ UNCHANGED deriveVars

\* ctx.on('dialogue/before-send', ...)
DialogueBeforeSend ==
  /\ proc = "running"
  /\ connected
  /\ nEvents < MaxEvents
  /\ \E id \in DialogueIds :
       /\ updateStats(FALSE, hourly, [daily EXCEPT !.data = Add(@, "dialogue", id)],
                      longterm, groups, {<<"daily", "dialogue", id>>})
       /\ Counted({<<"daily", "dialogue", id>>})
  /\ UNCHANGED <<now, ticks, stored, failed, lost, connected, settled>>
  /\ UNCHANGED snapVars
  /\ UNCHANGED deriveVars

\* ctx.on('before-send', ...): updateSendStats(session)
BeforeSend ==
  /\ proc = "running"
  /\ connected
  /\ nEvents < MaxEvents
  /\ \E subtype \in {"group", "private"}, selfId \in SelfIds, groupId \in GroupIds :
       LET h == [hourly EXCEPT !.data = Inc(Inc(@, "total"), subtype)]
           l == [longterm EXCEPT !.data = Inc(@, "message")]
           d1 == Add(daily.data, "botSend", selfId)
           d == [daily EXCEPT !.data =
                   IF subtype = "group" THEN Add(d1, "group", groupId) ELSE d1]
           g == IF subtype = "group"
                  THEN Put(groups, groupId,
                           (IF groupId \in DOMAIN groups THEN groups[groupId] ELSE 0) + 1)
                  ELSE groups
           slots == {<<"hourly", "total", "">>, <<"hourly", subtype, "">>,
                     <<"longterm", "message", "">>, <<"daily", "botSend", selfId>>}
                      \cup (IF subtype = "group"
                              THEN {<<"daily", "group", groupId>>, <<"groups", "", groupId>>}
                              ELSE {})
       IN  /\ updateStats(FALSE, h, d, l, g, slots)
           /\ Counted(slots)
  /\ UNCHANGED <<now, ticks, stored, failed, lost, connected, settled>>
  /\ UNCHANGED snapVars
  /\ UNCHANGED deriveVars

\* ctx.on('message', ...)
OnMessage ==
  /\ proc = "running"
  /\ connected
  /\ nEvents < MaxEvents
  /\ \E selfId \in SelfIds :
       /\ NoCheckAfter(hourly, [daily EXCEPT !.data = Add(@, "botReceive", selfId)],
                       longterm, groups, {<<"daily", "botReceive", selfId>>})
       /\ Counted({<<"daily", "botReceive", selfId>>})
  /\ UNCHANGED <<now, ticks, stored, failed, lost, connected, settled>>
  /\ UNCHANGED snapVars
  /\ UNCHANGED deriveVars

\* Session.prototype.send = function (...args)
SessionSend ==
  /\ proc = "running"
  /\ connected
  /\ nEvents < MaxEvents
  /\ \E sendType \in {"command", "dialogue"} :
       /\ NoCheckAfter([hourly EXCEPT !.data = Inc(@, sendType)], daily, longterm,
                       groups, {<<"hourly", sendType, "">>})
       /\ Counted({<<"hourly", sendType, "">>})
  /\ UNCHANGED <<now, ticks, stored, failed, lost, connected, settled>>
  /\ UNCHANGED snapVars
  /\ UNCHANGED deriveVars

\* ctx.on('connect', () => process.on('SIGINT', handleSigInt)): the app starts;
\* sessions are dispatched to the handlers only from then on.
Connect ==
  /\ proc = "running"
  /\ ~connected
  /\ connected' = TRUE
  /\ lastCheck' = NoCheck
  /\ UNCHANGED <<daily, hourly, longterm, groups, lastUpdate, updateHour, updateNumber,
                 now, ticks, queue, stored, proc, nEvents, incs, incTotal, pendingWin,
                 emitted, flushedTotal, failed, lost, settled>>
  /\ UNCHANGED snapVars
  /\ UNCHANGED deriveVars

\* handleSigInt: updateStats(db, true).finally(() => process.exit())
SigInt ==
  /\ proc = "running"
  /\ connected
  /\ updateStats(TRUE, hourly, daily, longterm, groups, {})
  /\ UNCHANGED <<now, ticks, stored, failed, lost, connected, settled, nEvents, incTotal>>
  /\ UNCHANGED snapVars
  /\ UNCHANGED deriveVars

\* The wall clock advances.
Tick ==
  /\ proc = "running"
  /\ ticks < MaxTicks
  /\ \E d \in Steps : now' = now + d
  /\ ticks' = ticks + 1
  /\ lastCheck' = NoCheck
  /\ UNCHANGED <<daily, hourly, longterm, groups, lastUpdate, updateHour, updateNumber,
                 queue, stored, proc, nEvents, incs, incTotal, pendingWin, emitted,
                 flushedTotal, failed, lost, connected, settled>>
  /\ UNCHANGED snapVars
  /\ UNCHANGED deriveVars

\* await db.query(sqls) rejects: updateStats has no catch, the rejected batch
\* is dropped and nothing is put back.
RejectedMutantRetry(q, batch) == Append(q, batch)
Rejected(q, batch) == q

\* The oldest db.query in flight resolves: all its statements are applied.
DbOk ==
  /\ proc = "running"
  /\ queue # <<>>
  /\ stored' = ApplyAll(stored, Head(queue).sqls)
  /\ queue' = Tail(queue)
  /\ settled' = settled + Len(Head(queue).sqls)
  /\ proc' = IF Head(queue).forced THEN "exited" ELSE proc
  /\ lastCheck' = NoCheck
  /\ UNCHANGED <<daily, hourly, longterm, groups, lastUpdate, updateHour, updateNumber,
                 now, ticks, nEvents, incs, incTotal, pendingWin, emitted, flushedTotal,
                 failed, lost, connected>>
  /\ UNCHANGED snapVars
  /\ UNCHANGED deriveVars

\* The oldest db.query in flight rejects: the statements before the failing
\* one are applied, the failing one and those after it are not.
DbFail ==
  /\ proc = "running"
  /\ queue # <<>>
  /\ \E k \in 0..(Len(Head(queue).sqls) - 1) :
       /\ stored' = ApplyAll(stored, SubSeq(Head(queue).sqls, 1, k))
       /\ lost' = [n |-> lost.n + 1,
                   stmts |-> lost.stmts \o
                               SubSeq(Head(queue).sqls, k + 1, Len(Head(queue).sqls))]
  /\ queue' = Rejected(Tail(queue), Head(queue))
  /\ settled' = settled + Len(Head(queue).sqls)
  /\ failed' = TRUE
  /\ UNCHANGED connected
  /\ proc' = IF Head(queue).forced THEN "exited" ELSE proc
  /\ lastCheck' = NoCheck
  /\ UNCHANGED <<daily, hourly, longterm, groups, lastUpdate, updateHour, updateNumber,
                 now, ticks, nEvents, incs, incTotal, pendingWin, emitted, flushedTotal>>
  /\ UNCHANGED snapVars
  /\ UNCHANGED deriveVars

\* ------------------------------------------------ one accumulator alone
\* The Stat classes driven directly: increments of one accumulator and
\* Stat.update with any bucket key, each statement handed to db.query.
StatOf(acc) ==
  CASE acc = "hourly" -> hourly
    [] acc = "daily" -> daily
    [] acc = "longterm" -> longterm

\* The bucket keys Stat.update is called with: two hours, two days.
KeysOf(acc) ==
  IF acc = "hourly"
    THEN UNION {{HourString(t), HourString(t + HourMs)} : t \in StartTimes}
    ELSE UNION {{toLocaleDateString(t), toLocaleDateString(t + HourMs)} : t \in StartTimes}

\* Only one accumulator is exercised in a behaviour.
Untouched(acc) ==
  /\ StatOf(acc) = NewStat(KindOf(acc), DOMAIN StatOf(acc).data)
  /\ \A i \in 1..Len(emitted) : emitted[i].table # TableOf(acc)
Alone(acc) == \A other \in StatNames \ {acc} : Untouched(other)

StatFrame ==
  /\ UNCHANGED <<lastUpdate, updateHour, updateNumber, now, ticks, stored, proc,
                 failed, lost, connected, settled>>
  /\ UNCHANGED snapVars
  /\ UNCHANGED deriveVars

\* daily.add(field, key)
StatAdd ==
  /\ nEvents < MaxAdds
  /\ Alone("daily")
  /\ \E field \in dailyFields : \E key \in FieldKeys(field) :
       /\ NoCheckAfter(hourly, [daily EXCEPT !.data = Add(@, field, key)], longterm,
                       groups, {<<"daily", field, key>>})
       /\ Counted({<<"daily", field, key>>})
  /\ StatFrame

\* hourly.data[field] += 1, longterm.data[field] += 1
StatInc ==
  /\ nEvents < MaxAdds
  /\ \E acc \in {"hourly", "longterm"} : \E field \in DOMAIN StatOf(acc).data :
       /\ Alone(acc)
       /\ NoCheckAfter(IF acc = "hourly" THEN [hourly EXCEPT !.data = Inc(@, field)]
                                         ELSE hourly,
                       daily,
                       IF acc = "longterm" THEN [longterm EXCEPT !.data = Inc(@, field)]
                                           ELSE longterm,
                       groups, {<<acc, field, "">>})
       /\ Counted({<<acc, field, "">>})
  /\ StatFrame

\* stat.update(date, sqls); await db.query(sqls), the write succeeding
StatFlush ==
  /\ \E acc \in StatNames : \E date \in KeysOf(acc) :
       LET u == StatUpdate(KindOf(acc), TableOf(acc), StatOf(acc), date)
       IN  /\ Alone(acc)
           /\ hourly' = IF acc = "hourly" THEN u.stat ELSE hourly
           /\ daily' = IF acc = "daily" THEN u.stat ELSE daily
           /\ longterm' = IF acc = "longterm" THEN u.stat ELSE longterm
           /\ stored' = ApplyAll(stored, u.sqls)
           /\ settled' = settled + Len(u.sqls)
           /\ emitted' = emitted \o u.sqls
           /\ lastCheck' = [checked |-> TRUE, forced |-> TRUE, flushed |-> TRUE,
                            lastUpdate |-> lastUpdate, updateHour |-> updateHour,
                            pre |-> [hourly |-> hourly.data, daily |-> daily.data,
                                     longterm |-> longterm.data, groups |-> groups],
                            keys |-> [hourly |-> hourly.key, daily |-> daily.key,
                                      longterm |-> longterm.key],
                            incs |-> incs, wins |-> pendingWin, queued |-> Len(queue),
                            stmts |-> u.sqls]
           /\ flushedTotal' =
                [s \in Slots |-> flushedTotal[s] + SumDelta(lastCheck'.stmts, s)]
           /\ incs' = ZeroSlots
           /\ pendingWin' = [a \in Accs |-> {}]
  /\ UNCHANGED <<nEvents, incTotal, groups, lastUpdate, updateHour, updateNumber, now,
                 ticks, proc, failed, lost, connected, queue>>
  /\ UNCHANGED snapVars
  /\ UNCHANGED deriveVars

NextStat ==
  \/ StatAdd
  \/ StatInc
  \/ StatFlush

SpecStat == Init /\ [][NextStat]_vars

\* The program with a database whose writes all succeed.
Next ==
  \/ Connect
  \/ BeforeCommand
  \/ DialogueBeforeSend
  \/ BeforeSend
  \/ OnMessage
  \/ SessionSend
  \/ SigInt
  \/ Tick
  \/ DbOk

Spec == Init /\ [][Next]_vars

\* The program with a database whose writes may fail.
NextFail ==
  \/ Connect
  \/ BeforeCommand
  \/ DialogueBeforeSend
  \/ BeforeSend
  \/ OnMessage
  \/ SessionSend
  \/ SigInt
  \/ Tick
  \/ DbOk
  \/ DbFail

SpecFail == Init /\ [][NextFail]_vars

\* ---------------------------------------------------------- snapshot cache
\* if (date !== cachedDate)
DateChangedMutantAlways(date, cached) == TRUE
DateChangedMutantRetry(date, cached) ==
  \/ date # cached
  \/ (cachedData # 0 /\ comps[cachedData].state = "rejected")
DateChanged(date, cached) == date # cached

\* Statistics.patch(profile) up to await cachedData: a new getStatusData call
\* (which issues the historical queries) when the date is not the cached one,
\* then the request waits for the cached promise.
Patch ==
  /\ proc = "running"
  /\ Cardinality(waiting) + Cardinality(delivered) < MaxPatches
  /\ LET date == toLocaleDateString(now)
         id == Cardinality(waiting) + Cardinality(delivered) + 1
     IN  IF DateChanged(date, cachedDate)
           THEN /\ comps' = Append(comps, [date |-> date, state |-> "pending",
                                           cachedBefore |-> cachedDate])
                /\ cachedData' = Len(comps) + 1
                /\ cachedDate' = date
                /\ waiting' = waiting \cup
                     {[id |-> id, date |-> date, comp |-> Len(comps) + 1,
                       found |-> "none"]}
           ELSE /\ waiting' = waiting \cup
                     {[id |-> id, date |-> date, comp |-> cachedData,
                       found |-> comps[cachedData].state]}
                /\ UNCHANGED <<comps, cachedData, cachedDate>>
  /\ UNCHANGED delivered
  /\ UNCHANGED <<now, ticks>>
  /\ UNCHANGED engineVars
  /\ UNCHANGED deriveVars

\* A getStatusData call returns its snapshot: the promise is fulfilled.
SnapshotResolve ==
  /\ proc = "running"
  /\ \E c \in 1..Len(comps) :
       /\ comps[c].state = "pending"
       /\ comps' = [comps EXCEPT ![c].state = "fulfilled"]
  /\ UNCHANGED <<cachedDate, cachedData, waiting, delivered, now, ticks>>
  /\ UNCHANGED engineVars
  /\ UNCHANGED deriveVars

\* A getStatusData call throws (a query fails): the promise is rejected.
SnapshotReject ==
  /\ proc = "running"
  /\ \E c \in 1..Len(comps) :
       /\ comps[c].state = "pending"
       /\ comps' = [comps EXCEPT ![c].state = "rejected"]
  /\ UNCHANGED <<cachedDate, cachedData, waiting, delivered, now, ticks>>
  /\ UNCHANGED engineVars
  /\ UNCHANGED deriveVars

\* A suspended patch request resumes with the outcome of the promise it awaits.
PatchResume ==
  /\ proc = "running"
  /\ \E r \in waiting :
       /\ comps[r.comp].state # "pending"
       /\ waiting' = waiting \ {r}
       /\ delivered' = delivered \cup {r @@ [outcome |-> comps[r.comp].state]}
  /\ UNCHANGED <<cachedDate, cachedData, comps, now, ticks>>
  /\ UNCHANGED engineVars
  /\ UNCHANGED deriveVars

NextPatch ==
  \/ Patch
  \/ SnapshotResolve
  \/ SnapshotReject
  \/ PatchResume
  \/ Tick

SpecPatch == Init /\ [][NextPatch]_vars

\* ---------------------------------------------------------------- average
\* A value of a fetched record: a number, or something that is not a number
\* (a string, a Date, null).
Num(n) == <<"number", n>>
NotNumber == <<"other">>
\* typeof stat[key] !== 'number'
IsNumber(v) == v[1] = "number"

\* stats.slice(0, RECENT_LENGTH)
SliceMutantAll(stats) == stats
Slice(stats) ==
  SubSeq(stats, 1, IF Len(stats) < RECENT_LENGTH THEN Len(stats) ELSE RECENT_LENGTH)

\* +(x / RECENT_LENGTH).toFixed(1), as a number of tenths (round half up).
ToFixed1(x, divisor) == (20 * x + divisor) \div (2 * divisor)

\* result[key] = (result[key] || 0) + stat[key], over the records in order.
RECURSIVE Accumulate(_, _)
Accumulate(result, stats) ==
  IF stats = <<>> THEN result
  ELSE LET stat == Head(stats)
           keys == {k \in DOMAIN stat : IsNumber(stat[k])}
       IN  Accumulate([k \in DOMAIN result \cup keys |->
                         (IF k \in DOMAIN result THEN result[k] ELSE 0)
                           + (IF k \in keys THEN stat[k][2] ELSE 0)],
                      Tail(stats))

\* average(stats): the result in tenths.
average(stats) ==
  LET result == Accumulate(EmptyRecord, Slice(stats))
  IN  [k \in DOMAIN result |-> ToFixed1(result[k], RECENT_LENGTH)]

\* The records average is called with: an empty one (or a null column), and
\* records with numeric, zero, non-numeric and absent values.
AvgRecords ==
  { EmptyRecord,
    [a |-> Num(1)],
    [a |-> NotNumber, b |-> Num(2)],
    [a |-> Num(2), b |-> Num(1)],
    [b |-> Num(0)] }

AvgInputs == UNION {[1..n -> AvgRecords] : n \in 0..MaxStats}

InitAverage ==
  /\ InitProgram
  /\ avg \in {[in |-> stats, called |-> FALSE] : stats \in AvgInputs}
  /\ snap = SnapIdle

\* average(stats) is called.
Average ==
  /\ ~avg.called
  /\ avg' = [in |-> avg.in, called |-> TRUE, out |-> average(avg.in)]
  /\ UNCHANGED engineVars
  /\ UNCHANGED <<now, ticks, snap>>
  /\ UNCHANGED snapVars

NextAverage == Average

SpecAverage == InitAverage /\ [][NextAverage]_vars

\* ------------------------------------------------- getStatusData: groups
\* db.app.bots
Bots == {"b1", "b2"}

\* The group column of the fetched daily records (most recent first).
DailyGroupMaps ==
  { EmptyRecord,
    "g1" :> Num(3),
    ("g1" :> Num(1)) @@ ("g2" :> Num(2)),
    "g2" :> Num(0) }

HistoryDailyInputs == UNION {[1..n -> DailyGroupMaps] : n \in 0..MaxHistory}

\* The assignee of a stored group: a bot of db.app.bots, or one that is not
\* (or no longer) among them.
Assignees == {"b1", "b0"}

\* The rows of the group table: for each id no row, or a row with a name
\* (possibly empty) and an assignee.
GroupMapInputs ==
  UNION {[ids -> [name : {"old", ""}, assignee : Assignees]] : ids \in SUBSET GroupIds}

\* What bot.getGroupList() resolves with: ids in some order, under the stored
\* or a new display name.
GroupLists ==
  {<<>>} \cup
  UNION {{<<[id |-> "g1", name |-> n]>>, <<[id |-> "g2", name |-> n]>>,
          <<[id |-> "g1", name |-> n], [id |-> "g2", name |-> n]>>,
          <<[id |-> "g2", name |-> n], [id |-> "g1", name |-> n]>>} : n \in {"old", "new"}}

\* const messageMap = average(historyDaily.map(data => data.group))
MessageMap(historyDaily) == average(historyDaily)

\* !messageMap[id]
NoMessagesMutantAbsent(messageMap, id) == id \notin DOMAIN messageMap
NoMessages(messageMap, id) == id \notin DOMAIN messageMap \/ messageMap[id] = 0

\* last: historyDaily[0].group[id] (undefined when the latest record lacks it)
LastOf(historyDaily, id) ==
  IF id \in DOMAIN historyDaily[1] THEN historyDaily[1][id] ELSE <<"undefined">>

\* if (!messageMap[id] || groupSet.has(id)) continue
SkipListed(st, id) == NoMessages(MessageMap(st.daily), id) \/ id \in st.groupSet

\* app.bots[assignee]: the bot, or undefined (a value without selfId) when
\* no bot has that id; reading .selfId of undefined throws.
appBots(assignee) ==
  IF assignee \in Bots THEN [selfId |-> assignee] ELSE [undefined |-> TRUE]
SelfIdThrows(bot) == "selfId" \notin DOMAIN bot

\* The for loop of getGroupInfo over the listed groups. Destructuring
\* groupMap[id] throws when the id has no row, and app.bots[assignee].selfId
\* throws when the assignee is not a bot (after the push to updateList): the
\* loop ends there (the rejection is swallowed by .catch(noop)), after
\* groupSet.add(id).
RECURSIVE GroupLoop(_, _, _)
GroupLoop(st, bot, list) ==
  IF list = <<>> THEN st
  ELSE LET id == Head(list).id
           name == Head(list).name
       IN  IF SkipListed(st, id)
             THEN GroupLoop(st, bot, Tail(list))
             ELSE IF id \notin DOMAIN st.groupMap
               THEN [st EXCEPT !.groupSet = @ \cup {id}, !.bots[bot] = "threw"]
               ELSE LET named == [st EXCEPT
                                    !.groupSet = @ \cup {id},
                                    !.updateList =
                                       IF name # st.groupMap[id].name
                                         THEN Append(@, [id |-> id, name |-> name])
                                         ELSE @]
                        assignee == st.groupMap[id].assignee
                    IN  IF SelfIdThrows(appBots(assignee))
                          THEN [named EXCEPT !.bots[bot] = "threw"]
                          ELSE GroupLoop(
                                 [named EXCEPT !.groups =
                                    Append(@, [id |-> id, name |-> name, via |-> bot,
                                               value |-> MessageMap(st.daily)[id],
                                               last |-> LastOf(st.daily, id),
                                               assignee |-> appBots(assignee).selfId])],
                                 bot, Tail(list))

\* for (const key in messageMap) if (!groupSet.has(key) && groupMap[key]) ...
\* app.bots[assignee].selfId throws when the assignee is not a bot: nothing
\* catches it here, getStatusData rejects.
RECURSIVE StoredLoop(_, _)
StoredLoop(st, keys) ==
  IF keys = <<>> THEN st
  ELSE LET key == Head(keys)
       IN  IF key \notin st.groupSet /\ key \in DOMAIN st.groupMap
             THEN IF SelfIdThrows(appBots(st.groupMap[key].assignee))
               THEN [st EXCEPT !.phase = "rejected"]
               ELSE StoredLoop(
                    [st EXCEPT !.groups =
                       Append(@, [id |-> key,
                                  name |-> IF st.groupMap[key].name # ""
                                             THEN st.groupMap[key].name ELSE key,
                                  via |-> "stored",
                                  value |-> MessageMap(st.daily)[key],
                                  last |-> LastOf(st.daily, key),
                                  assignee |->
                                    appBots(st.groupMap[key].assignee).selfId])],
                    Tail(keys))
             ELSE StoredLoop(st, Tail(keys))

\* getStatusData after its history queries returned: every getGroupInfo(bot)
\* is waiting for bot.getGroupList().
InitGroups ==
  /\ InitProgram
  /\ avg = AvgIdle
  /\ snap \in {[phase |-> "listing", daily |-> h, groupMap |-> m,
                bots |-> [b \in Bots |-> "waiting"],
                listed |-> [b \in Bots |-> <<>>], groupSet |-> {},
                groups |-> <<>>, updateList |-> <<>>] :
               h \in HistoryDailyInputs, m \in GroupMapInputs}

GroupsFrame ==
  /\ UNCHANGED engineVars
  /\ UNCHANGED <<now, ticks, avg>>
  /\ UNCHANGED snapVars

\* bot.getGroupList() resolves and getGroupInfo(bot) runs its loop.
GetGroupInfo ==
  /\ snap.phase = "listing"
  /\ \E bot \in Bots, list \in GroupLists :
       /\ snap.bots[bot] = "waiting"
       /\ snap' = GroupLoop([snap EXCEPT !.bots[bot] = "done", !.listed[bot] = list],
                            bot, list)
  /\ GroupsFrame

\* getGroupInfo(bot).catch(noop): the rejection stays with this bot.
Caught(st, bot) == [st EXCEPT !.bots[bot] = "failed"]

\* bot.getGroupList() rejects.
GetGroupInfoFail ==
  /\ snap.phase = "listing"
  /\ \E bot \in Bots :
       /\ snap.bots[bot] = "waiting"
       /\ snap' = Caught(snap, bot)
  /\ GroupsFrame

\* Promise.all has resolved: the loop over messageMap runs and getStatusData
\* goes on to return the snapshot, unless the loop threw.
AssembleGroups ==
  /\ snap.phase = "listing"
  /\ \A bot \in Bots : snap.bots[bot] # "waiting"
  /\ LET looped == StoredLoop(snap, SelectSeq(GroupOrder,
                                 LAMBDA id : id \in DOMAIN MessageMap(snap.daily)))
     IN  snap' = IF looped.phase = "rejected" THEN looped
                 ELSE [looped EXCEPT !.phase = "fulfilled"]
  /\ GroupsFrame

NextGroups ==
  \/ GetGroupInfo
  \/ GetGroupInfoFail
  \/ AssembleGroups

SpecGroups == InitGroups /\ [][NextGroups]_vars

\* -------------------------------------------------- getStatusData: hours
\* The bucket times of the stats_hourly rows: hours 0 and 23 of each day.
HourlyTimes == {d * DayMs + h * HourMs : d \in 0..(MaxDays - 1), h \in {0, 23}}

\* A stats_hourly row: its time (a Date) and its total, here the day number
\* plus one.
HourlyRow(t) == [time |-> <<"date", t>>, total |-> Num(t \div DayMs + 1)]

\* ORDER BY time DESC
RECURSIVE OrderByTimeDesc(_)
OrderByTimeDesc(times) ==
  IF times = {} THEN <<>>
  ELSE LET latest == CHOOSE t \in times : \A u \in times : u <= t
       IN  <<HourlyRow(latest)>> \o OrderByTimeDesc(times \ {latest})

\* s.time.getHours() === index
SameHourMutantAny(s, index) == TRUE
SameHour(s, index) == getHours(s.time[2]) = index

\* new Array(24).fill(0).map((_, index) => average(historyHourly.filter(...)))
Hours(historyHourly) ==
  [index \in 0..23 |->
     average(SelectSeq(historyHourly, LAMBDA s : SameHour(s, index)))]

\* getStatusData after its history queries returned, with the hourly rows.
InitHours ==
  /\ InitProgram
  /\ avg = AvgIdle
  /\ snap \in {[phase |-> "queried", hourly |-> OrderByTimeDesc(times)] :
               times \in SUBSET HourlyTimes}

\* extension.hours = ...
AssembleHours ==
  /\ snap.phase = "queried"
  /\ snap' = [phase |-> "hours", hourly |-> snap.hourly, hours |-> Hours(snap.hourly)]
  /\ GroupsFrame

NextHours == AssembleHours

SpecHours == InitHours /\ [][NextHours]_vars

\* ------------------------------------------------------------ observations
\* The pending value of a slot in the accumulators and the ledger.
Pending(s) ==
  CASE s[1] = "hourly" -> hourly.data[s[2]]
    [] s[1] = "longterm" -> longterm.data[s[2]]
    [] s[1] = "daily" ->
         IF s[3] \in DOMAIN daily.data[s[2]] THEN daily.data[s[2]][s[3]] ELSE 0
    [] s[1] = "groups" -> IF s[3] \in DOMAIN groups THEN groups[s[3]] ELSE 0

\* The statements emitted for one table, in order.
LogOf(table) == SelectSeq(emitted, LAMBDA st : st.table = table)
\* The statements emitted for one table and one bucket key.
LogAt(table, key) == SelectSeq(emitted, LAMBDA st : st.table = table /\ st.where = key)

StatSlots == {s \in Slots : s[1] # "groups"}

\* ------------------------------------------------------------------ claims

\* C1: when N >= 1 increments were applied to a field (or field/key pair)
\* since the previous flush, the flush emits exactly one statement for the
\* accumulator and that statement carries delta N for it: in its SET clause on
\* the update path, and in both VALUES and ON DUPLICATE KEY UPDATE on the
\* insert path.
C1_FlushedDeltaIsN ==
  (lastCheck.checked /\ lastCheck.flushed) =>
    \A s \in StatSlots :
      lastCheck.incs[s] >= 1 =>
        \E i \in 1..Len(lastCheck.stmts) :
          LET st == lastCheck.stmts[i]
          IN  /\ st.table = TableOf(s[1])
              /\ Carried(st.set, s) = lastCheck.incs[s]
              /\ st.kind \in {"insert", "update"}
              /\ st.kind = "insert" => Carried(st.values, s) = lastCheck.incs[s]
              /\ \A j \in 1..Len(lastCheck.stmts) :
                   lastCheck.stmts[j].table = st.table => j = i

\* C1 witness: a flush on the update path carrying delta 2 for a nested key.
C1_Witness ==
  /\ lastCheck.checked /\ lastCheck.flushed
  /\ \E s \in StatSlots :
       /\ s[1] = "daily"
       /\ lastCheck.incs[s] = 2
       /\ \E i \in 1..Len(lastCheck.stmts) :
            /\ lastCheck.stmts[i].kind = "update"
            /\ Carried(lastCheck.stmts[i].set, s) = 2

\* C2: with every write applied in dispatch order, the stored nested map of a
\* daily bucket holds for every key the sum of the deltas flushed for it under
\* that bucket key, and nothing else; so a merge adds its delta to the keys it
\* names and leaves every other stored key as it was.
C2_MergesCompose ==
  \A K \in KeysOf("daily") :
    LET total(f, k) == SumDelta(LogAt("stats_daily", K), <<"daily", f, k>>)
    IN  IF K \in DOMAIN stored.stats_daily
          THEN \A f \in dailyFields :
                 stored.stats_daily[K][f] =
                   [k \in {x \in FieldKeys(f) : total(f, x) > 0} |-> total(f, k)]
          ELSE \A f \in dailyFields : \A k \in FieldKeys(f) : total(f, k) = 0

\* C2 witness: a second flush under the same bucket key merged a delta for g1
\* into a stored map that also holds g2, which the delta does not name.
C2_Witness ==
  \E K \in KeysOf("daily") :
    LET log == LogAt("stats_daily", K)
    IN  /\ Len(log) >= 2
        /\ log[Len(log)].kind = "update"
        /\ "group" \in DOMAIN log[Len(log)].set
        /\ DOMAIN log[Len(log)].set["group"] = {"g1"}
        /\ K \in DOMAIN stored.stats_daily
        /\ DOMAIN stored.stats_daily[K]["group"] = {"g1", "g2"}
        /\ stored.stats_daily[K]["group"]["g1"] = 2

\* C3: in a run of consecutive data-carrying flushes of one accumulator that
\* use the same bucket key, the first emits the insert and every following one
\* emits an update: two such flushes give exactly one insert followed by an
\* update, never two inserts.
C3_OneInsertThenUpdates ==
  \A acc \in StatNames :
    LET log == LogOf(TableOf(acc))
    IN  \A i \in 1..Len(log) : \A j \in 1..Len(log) :
          (i < j /\ \A m \in i..j : log[m].where = log[i].where) =>
            /\ log[j].kind = "update"
            /\ (i = 1 \/ log[i - 1].where # log[i].where) => log[i].kind = "insert"

\* C3 witness: two consecutive flushes with data under one key, insert then update.
C3_Witness ==
  \E acc \in StatNames :
    LET log == LogOf(TableOf(acc))
    IN  /\ Len(log) = 2
        /\ log[1].where = log[2].where
        /\ log[1].kind = "insert"
        /\ log[2].kind = "update"

\* C4 as stated: at most one insert is ever emitted per distinct bucket key.
C4_OneInsertPerKey ==
  \A acc \in StatNames :
    LET log == LogOf(TableOf(acc))
    IN  \A i \in 1..Len(log) : \A j \in 1..Len(log) :
          (i < j /\ log[i].where = log[j].where /\ log[i].kind = "insert") =>
            log[j].kind # "insert"

\* C4 amended: a flush with data emits an insert exactly when its bucket key
\* differs from the key of the accumulator's previous flush with data (or there
\* was none), and a merge-update otherwise; at most one insert is emitted per
\* run of flushes under one key, and a key that returns after another key was
\* flushed gets a second insert.
C4_InsertIffKeyChanged ==
  \A acc \in StatNames :
    LET log == LogOf(TableOf(acc))
    IN  \A i \in 1..Len(log) :
          /\ log[i].kind \in {"insert", "update"}
          /\ log[i].kind = "insert" <=> (i = 1 \/ log[i - 1].where # log[i].where)

\* C4 witness: the bucket key changed and took its earlier value again.
C4_Witness ==
  \E acc \in StatNames :
    LET log == LogOf(TableOf(acc))
    IN  /\ Len(log) = 3
        /\ log[1].where = log[3].where
        /\ log[2].where # log[1].where
        /\ log[3].kind = "insert"

\* The accumulator a table belongs to.
AccOf(table) ==
  CASE table = "stats_hourly" -> "hourly"
    [] table = "stats_daily" -> "daily"
    [] table = "stats_longterm" -> "longterm"
    [] table = "channel" -> "groups"

RECURSIVE InFlight(_)
InFlight(q) == IF q = <<>> THEN <<>> ELSE Head(q).sqls \o InFlight(Tail(q))

\* C5 as stated: every increment flushed under a bucket key was made inside
\* the hour (for stats_hourly) or the day (for stats_daily, stats_longterm)
\* the key names.
C5_KeyNamesWindowOfData ==
  (lastCheck.checked /\ lastCheck.flushed) =>
    \A i \in 1..Len(lastCheck.stmts) :
      LET st == lastCheck.stmts[i]
      IN  st.kind # "activity" =>
            \A w \in lastCheck.wins[AccOf(st.table)] :
              IF st.table = "stats_hourly" THEN st.where = w ELSE st.where = <<w[1]>>

\* C6: a flush check flushes exactly when it is forced, or more than 60000 ms
\* have passed since the last flush, or the hour of day differs from the hour
\* recorded at the last flush; a check that does not flush emits nothing and
\* leaves the accumulators, their keys, the ledger, lastUpdate and updateHour
\* as it found them.
C6_FlushIffTriggered ==
  lastCheck.checked =>
    LET due == \/ lastCheck.forced
               \/ now - lastCheck.lastUpdate > 60000
               \/ getHours(now) # lastCheck.updateHour
    IN  /\ lastCheck.flushed <=> due
        /\ due => /\ lastUpdate = now
                  /\ updateHour = getHours(now)
                  /\ \A s \in Slots : Pending(s) = 0
        /\ ~due => /\ lastCheck.stmts = <<>>
                   /\ Len(queue) = lastCheck.queued
                   /\ hourly = [data |-> lastCheck.pre.hourly, key |-> lastCheck.keys.hourly]
                   /\ daily = [data |-> lastCheck.pre.daily, key |-> lastCheck.keys.daily]
                   /\ longterm = [data |-> lastCheck.pre.longterm,
                                  key |-> lastCheck.keys.longterm]
                   /\ groups = lastCheck.pre.groups
                   /\ lastUpdate = lastCheck.lastUpdate
                   /\ updateHour = lastCheck.updateHour

\* C6 witness: a check less than 60 s after the last flush, not forced, that
\* flushed because the clock crossed an hour boundary.
C6_Witness ==
  /\ lastCheck.checked /\ lastCheck.flushed /\ ~lastCheck.forced
  /\ now - lastCheck.lastUpdate < 60000
  /\ lastCheck.lastUpdate # 23 * HourMs + 58 * 60000 + 30000
  /\ getHours(now) # lastCheck.updateHour
  /\ lastCheck.stmts # <<>>

\* C7: a flush with no increment since the previous flush finds every
\* accumulator at zero/empty and emits no statement; when a flush returns
\* every accumulator and the ledger are at zero/empty; and a step that does not
\* flush never decreases an accumulated value.
C7_FlushState ==
  (lastCheck.checked /\ lastCheck.flushed) =>
    /\ \A s \in Slots : Pending(s) = 0
    /\ (\A s \in Slots : lastCheck.incs[s] = 0) =>
         /\ lastCheck.stmts = <<>>
         /\ \A f \in hourlyFields : lastCheck.pre.hourly[f] = 0
         /\ \A f \in longtermFields : lastCheck.pre.longterm[f] = 0
         /\ \A f \in dailyFields : DOMAIN lastCheck.pre.daily[f] = {}
         /\ DOMAIN lastCheck.pre.groups = {}
C7_NonDecreasing ==
  ~(lastCheck'.checked /\ lastCheck'.flushed) =>
    \A s \in Slots : Pending(s)' >= Pending(s)
C7_DrainAndSuppress == []C7_FlushState /\ [][C7_NonDecreasing]_vars

\* C7 witness: a forced flush right after a flush that carried data, with no
\* increment in between.
C7_Witness ==
  /\ lastCheck.checked /\ lastCheck.flushed /\ lastCheck.forced
  /\ \A s \in Slots : lastCheck.incs[s] = 0
  /\ emitted # <<>>
  /\ lastCheck.lastUpdate = now

\* C8: every increment is in the delta of exactly one flush or still pending:
\* for every counter, the increments made so far equal the deltas emitted so
\* far plus the pending value, also while writes are in flight.
C8_EveryIncrementOnce ==
  \A s \in Slots : incTotal[s] = flushedTotal[s] + Pending(s)

\* C8 witness: a counter was incremented again while the write of the flush
\* that carried its earlier increment is still pending.
C8_Witness ==
  /\ queue # <<>>
  /\ \E s \in Slots : Pending(s) >= 1 /\ SumDelta(InFlight(queue), s) >= 1

\* C10: once a write has failed, its counts are gone for good: the statements
\* in flight are exactly the emitted statements whose write has not settled
\* (a failed batch is never dispatched again), the accumulators and the ledger
\* hold only the increments made since the last flush, and every increment is
\* in exactly one emitted delta or pending.
C10_FailedWriteNotRetried ==
  failed =>
    /\ InFlight(queue) = SubSeq(emitted, settled + 1, Len(emitted))
    /\ \A s \in Slots : Pending(s) = incs[s]
    /\ \A s \in Slots : incTotal[s] = flushedTotal[s] + Pending(s)

\* C10 witness: a flush with data after an earlier write has failed.
C10_Witness ==
  /\ failed
  /\ lastCheck.checked /\ lastCheck.flushed
  /\ lastCheck.stmts # <<>>
  /\ settled >= 1
  /\ \A s \in Slots : Pending(s) = 0

\* The patch requests made so far, without and with their outcome.
Requests == {[id |-> r.id, date |-> r.date, comp |-> r.comp] : r \in waiting \cup delivered}

\* C9: the historical queries are issued at most once per date and exactly
\* once for a date that was requested; every request for a date waits for, and
\* gets the outcome of, the one getStatusData call of that date; and a call was
\* started only by a request whose date differed from the cached date.
C9_OneComputationPerDate ==
  /\ \A c \in 1..Len(comps) : \A d \in 1..Len(comps) :
       comps[c].date = comps[d].date => c = d
  /\ \A r \in Requests :
       /\ r.comp \in 1..Len(comps)
       /\ comps[r.comp].date = r.date
  /\ \A r \in Requests : \A q \in Requests : r.date = q.date => r.comp = q.comp
  /\ \A r \in delivered : \A q \in delivered :
       r.date = q.date => r.outcome = q.outcome
  /\ \A c \in 1..Len(comps) :
       /\ comps[c].cachedBefore # comps[c].date
       /\ \E r \in Requests : r.comp = c
  /\ cachedData = Len(comps)
  /\ comps # <<>> => cachedDate = comps[cachedData].date

\* C9 witness: three requests for one date, the second arriving while the
\* computation was in flight and the third after it completed, all served by
\* the same single getStatusData call.
C9_Witness ==
  /\ Len(comps) = 1
  /\ Cardinality(delivered) = 3
  /\ \E r \in delivered : r.found = "none"
  /\ \E r \in delivered : r.found = "pending"
  /\ \E r \in delivered : r.found = "fulfilled"

\* The sum of the values of a record.
RECURSIVE SumOf(_)
SumOf(f) ==
  IF DOMAIN f = {} THEN 0
  ELSE LET x == CHOOSE y \in DOMAIN f : TRUE
       IN  f[x] + SumOf([y \in DOMAIN f \ {x} |-> f[y]])

\* What storage holds for a counter, over all bucket keys (day numbers for the
\* activity column of a channel).
StoredValue(s) ==
  IF s[1] = "groups"
    THEN SumOf(stored.channel[s[3]])
    ELSE LET rows == stored[TableOf(s[1])]
         IN  SumOf([k \in DOMAIN rows |-> Carried(rows[k], s)])

\* C11 as stated: after exactly one failed write and with every other write
\* settled successfully, the counts missing from storage are exactly the
\* counts of the statements the failed write did not apply: every counter's
\* stored value plus its lost delta equals the total of its emitted deltas.
C11_LossBoundedToFailedCycle ==
  (lost.n = 1 /\ queue = <<>>) =>
    \A s \in Slots : StoredValue(s) + SumDelta(lost.stmts, s) = flushedTotal[s]

\* The activity statements of the last flush for one entity.
LedgerStmts(g) ==
  SelectSeq(lastCheck.stmts, LAMBDA st : st.kind = "activity" /\ st.where = g)

\* C12: a triggered flush emits, for every entity with a pending ledger
\* increment, exactly one merge statement, which adds the entity's pending
\* delta (its group sends since the previous flush) to the slot of the day
\* number of the flush instant, and none for any other entity; the ledger is
\* empty when the flush returns, while the statements are still in flight; the
\* slot depends only on the day of the flush.
C12_LedgerMergedAndCleared ==
  (lastCheck.checked /\ lastCheck.flushed) =>
    /\ \A g \in GroupIds :
         IF lastCheck.incs[<<"groups", "", g>>] > 0
           THEN /\ Len(LedgerStmts(g)) = 1
                /\ LedgerStmts(g)[1].set =
                     (now \div DayMs) :> lastCheck.incs[<<"groups", "", g>>]
                /\ LedgerStmts(g)[1].table = "channel"
           ELSE LedgerStmts(g) = <<>>
    /\ updateNumber = now \div DayMs
    /\ groups = EmptyRecord
    /\ lastCheck.stmts # <<>> =>
         /\ Len(queue) = lastCheck.queued + 1
         /\ queue[Len(queue)].sqls = lastCheck.stmts

\* C12 witness: a flush that merges a delta of 2 for one entity, the ledger
\* already empty while the write is in flight.
C12_Witness ==
  /\ lastCheck.checked /\ lastCheck.flushed
  /\ \E g \in GroupIds : lastCheck.incs[<<"groups", "", g>>] = 2
  /\ queue # <<>>
  /\ groups = EmptyRecord

\* C13 as stated, its ordering part: the process exits only after the write of
\* every forced (SIGINT) flush has settled, so at exit no forced batch is
\* still in flight.
C13_ExitAfterFlushSettled ==
  proc = "exited" => \A i \in 1..Len(queue) : ~queue[i].forced

\* The numeric value of a key in a record, zero when missing or not a number.
NumericOr0(stat, key) ==
  IF key \in DOMAIN stat /\ stat[key][1] = "number" THEN stat[key][2] ELSE 0

\* The sum of the numeric values of a key over the first n records.
WindowSum(stats, key, n) == SumOf([i \in 1..n |-> NumericOr0(stats[i], key)])

\* C14: for every key, average returns the sum of the numeric values of the
\* key over the first min(len, 5) records divided by 5 (exact to one decimal,
\* here in tenths): the divisor is 5 whatever the number of records holding
\* the key, missing and non-numeric values count zero, records after the fifth
\* are ignored, a key is in the result exactly when one of those records holds
\* a number for it, and an empty window gives the empty record.
C14_AverageOverFive ==
  avg.called =>
    LET n == IF Len(avg.in) < 5 THEN Len(avg.in) ELSE 5
    IN  /\ \A key \in {"a", "b"} :
             IF \E i \in 1..n : key \in DOMAIN avg.in[i] /\ avg.in[i][key][1] = "number"
               THEN /\ key \in DOMAIN avg.out
                    /\ 5 * avg.out[key] = 10 * WindowSum(avg.in, key, n)
               ELSE key \notin DOMAIN avg.out
        /\ DOMAIN avg.out \subseteq {"a", "b"}
        /\ n = 0 => avg.out = EmptyRecord

\* C14 witness: six records, two of the first five holding a number for a key
\* and one a non-number, the sixth holding a number too: the result is the sum
\* of the two over 5.
C14_Witness ==
  /\ avg.called
  /\ Len(avg.in) = 6
  /\ avg.in[6] = [a |-> Num(1)]
  /\ Cardinality({i \in 1..5 : "a" \in DOMAIN avg.in[i] /\ avg.in[i].a[1] = "number"}) = 2
  /\ \E i \in 1..5 : "a" \in DOMAIN avg.in[i] /\ avg.in[i].a = NotNumber
  /\ avg.out.a = 6

\* The ids in extension.groups and the entries of one id.
GroupsIds == {snap.groups[i].id : i \in 1..Len(snap.groups)}
EntriesOf(id) == SelectSeq(snap.groups, LAMBDA e : e.id = id)
\* The ids a bot's listing held.
ListedBy(bot) == {snap.listed[bot][i].id : i \in 1..Len(snap.listed[bot])}

\* C15 as stated: a bot whose getGroupList fails is skipped and the snapshot
\* still completes; in the completed snapshot every entity with recent traffic and a
\* stored record that another bot listed appears, and so does every entity
\* with a message-map entry and a stored record that no bot listed (from its
\* stored record).
C15_FailedSourceSkipped ==
  (snap.phase # "idle" /\ \E b \in Bots : snap.bots[b] = "failed") =>
    /\ snap.phase # "rejected"
    /\ \A b \in Bots : snap.bots[b] = "failed" => snap.listed[b] = <<>>
    /\ snap.phase = "fulfilled" =>
         \A id \in GroupIds :
           /\ (/\ \E b \in Bots : snap.bots[b] # "failed" /\ id \in ListedBy(b)
               /\ ~NoMessages(average(snap.daily), id)
               /\ id \in DOMAIN snap.groupMap)
                => id \in GroupsIds
           /\ (/\ \A b \in Bots : id \notin ListedBy(b)
               /\ id \in DOMAIN average(snap.daily)
               /\ id \in DOMAIN snap.groupMap)
                => /\ id \in GroupsIds
                   /\ \A i \in 1..Len(snap.groups) :
                        snap.groups[i].id = id => snap.groups[i].via = "stored"

\* C16 as stated: in a completed snapshot every entity with a stored record
\* and no non-zero entry in the recent-average message map appears in groups.
C16_NoTrafficStillAppears ==
  snap.phase = "fulfilled" =>
    \A id \in DOMAIN snap.groupMap :
      (id \notin DOMAIN average(snap.daily) \/ average(snap.daily)[id] = 0)
        => id \in GroupsIds

\* C16 amended: an entity appears in groups only with an entry in the
\* message map and a stored record, carrying that average and its count in
\* the most recent daily record; with a stored record and a zero entry it
\* appears once, from its stored record, listed by a bot or not; with no entry
\* it does not appear, listed or not.
C16_AppearsOnlyWithMessageEntry ==
  snap.phase = "fulfilled" =>
    /\ \A i \in 1..Len(snap.groups) :
         LET e == snap.groups[i]
         IN  /\ e.id \in DOMAIN average(snap.daily)
             /\ e.id \in DOMAIN snap.groupMap
             /\ e.value = average(snap.daily)[e.id]
             /\ e.last = IF e.id \in DOMAIN snap.daily[1]
                           THEN snap.daily[1][e.id] ELSE <<"undefined">>
    /\ \A id \in DOMAIN snap.groupMap :
         /\ id \notin DOMAIN average(snap.daily) => id \notin GroupsIds
         /\ (id \in DOMAIN average(snap.daily) /\ average(snap.daily)[id] = 0) =>
              /\ Len(EntriesOf(id)) = 1
              /\ EntriesOf(id)[1].via = "stored"
              /\ EntriesOf(id)[1].value = 0

\* C16 witness: a completed snapshot where a bot listed two entities with
\* stored records, one with a zero entry in the message map (it appears, from
\* its stored record) and one with no entry (it does not appear).
C16_Witness ==
  /\ snap.phase = "fulfilled"
  /\ DOMAIN snap.groupMap = {"g1", "g2"}
  /\ DOMAIN average(snap.daily) = {"g2"}
  /\ average(snap.daily)["g2"] = 0
  /\ ListedBy("b1") = {"g1", "g2"}
  /\ GroupsIds = {"g2"}

\* The positions of the fetched hourly rows of hour h, and the (at most five)
\* most recent of them.
RowsOfHour(h) ==
  {i \in 1..Len(snap.hourly) : (snap.hourly[i].time[2] \div HourMs) % 24 = h}
RecentRowsOfHour(h) ==
  {i \in RowsOfHour(h) : Cardinality({j \in RowsOfHour(h) : j < i}) < 5}

\* C17: hours has exactly the 24 slots 0..23; slot h is empty when no fetched
\* hourly row has hour of day h, and otherwise holds, for total, the sum over
\* the at most five most recent rows of hour h divided by 5 (in tenths), rows
\* of other hours contributing nothing; the row's time is not averaged.
C17_HoursByHourOfDay ==
  snap.phase = "hours" =>
    /\ DOMAIN snap.hours = 0..23
    /\ \A h \in 0..23 :
         IF RowsOfHour(h) = {}
           THEN snap.hours[h] = EmptyRecord
           ELSE /\ DOMAIN snap.hours[h] = {"total"}
                /\ 5 * snap.hours[h].total =
                     10 * SumOf([i \in RecentRowsOfHour(h) |-> snap.hourly[i].total[2]])

\* C17 witness: six rows of hour 0 and one of hour 23: slot 0 averages the
\* five most recent (days 5..1: totals 6+5+4+3+2 = 20, over 5), slot 23 the
\* single row, slot 5 is empty.
C17_Witness ==
  /\ snap.phase = "hours"
  /\ Cardinality(RowsOfHour(0)) = 6
  /\ Cardinality(RowsOfHour(23)) = 1
  /\ snap.hours[0].total = 40
  /\ snap.hours[5] = EmptyRecord

\* The counters a step increments.
Incremented == {s \in Slots : incTotal'[s] > incTotal[s]}
\* The counters of ctx.on('message') and of the wrapped Session.send.
UncheckedSlots ==
  {<<"daily", "botReceive", id>> : id \in SelfIds}
    \cup {<<"hourly", "command", "">>, <<"hourly", "dialogue", "">>}

\* C18 as stated: every step that increments a counter performs a flush
\* check, and flushes when more than the refresh interval has passed since the
\* last flush.
C18_StepChecked ==
  Incremented # {} =>
    /\ lastCheck'.checked
    /\ now - lastUpdate > 60000 => lastCheck'.flushed
C18_EveryCountedEventChecks == [][C18_StepChecked]_vars

\* C18 amended: a command, a matched dialogue and a before-send event perform
\* a flush check after incrementing, which flushes once more than the refresh
\* interval has passed; a received message and a send through the wrapped
\* Session.send only increment: no check, no statement, nothing reset.
C18_StepCheckedUnlessReceiveOrSend ==
  Incremented # {} =>
    IF Incremented \subseteq UncheckedSlots
      THEN /\ ~lastCheck'.checked
           /\ queue' = queue /\ emitted' = emitted /\ lastUpdate' = lastUpdate
           /\ \A s \in Slots :
                Pending(s)' = Pending(s) + (IF s \in Incremented THEN 1 ELSE 0)
      ELSE /\ lastCheck'.checked
           /\ now - lastUpdate > 60000 =>
                /\ lastCheck'.flushed
                /\ lastCheck'.stmts # <<>>
                /\ \A s \in Slots : Pending(s)' = 0
C18_CommandDialogueSendCheck == [][C18_StepCheckedUnlessReceiveOrSend]_vars

\* C18 witness: more than the refresh interval after the last flush, two
\* received messages are counted and pending, and nothing was flushed.
C18_Witness ==
  /\ now - lastUpdate > 60000
  /\ Pending(<<"daily", "botReceive", "bot">>) = 2
  /\ emitted = <<>>
  /\ ~lastCheck.checked

\* C19: in every reachable state the pending hourly total equals the pending
\* longterm message count, and for every entity the pending ledger increment
\* equals the pending daily group count of that entity.
C19_PairedCountersAgree ==
  /\ Pending(<<"hourly", "total", "">>) = Pending(<<"longterm", "message", "">>)
  /\ \A g \in GroupIds :
       Pending(<<"groups", "", g>>) = Pending(<<"daily", "group", g>>)

\* C19 witness: two sends to one group are pending in all four counters.
C19_Witness ==
  /\ hourly.data.total = 2
  /\ longterm.data.message = 2
  /\ \E g \in GroupIds : g \in DOMAIN groups /\ groups[g] = 2 /\ daily.data.group[g] = 2

\* The days that have a row in stats_hourly or stats_longterm.
StoredDays ==
  {k[1] : k \in DOMAIN stored.stats_hourly} \cup {k[1] : k \in DOMAIN stored.stats_longterm}

\* C20: with every write succeeding and applied in dispatch order, for every
\* day D the totals of the stored hourly rows of D add up to the message count
\* of the stored longterm row of D (zero when there is no such row).
C20_HourlyTotalsMatchLongterm ==
  \A D \in StoredDays :
    SumOf([k \in {j \in DOMAIN stored.stats_hourly : j[1] = D} |->
             stored.stats_hourly[k].total])
      = IF <<D>> \in DOMAIN stored.stats_longterm
          THEN stored.stats_longterm[<<D>>].message ELSE 0

\* C20 witness: sends were flushed and written on two days, before and after
\* midnight.
C20_Witness ==
  /\ queue = <<>>
  /\ <<0>> \in DOMAIN stored.stats_longterm /\ stored.stats_longterm[<<0>>].message = 1
  /\ <<1>> \in DOMAIN stored.stats_longterm /\ stored.stats_longterm[<<1>>].message = 1
  /\ <<1, 0>> \in DOMAIN stored.stats_hourly

\* C21: a rejected getStatusData call is cached like a fulfilled one. A request
\* that finds the cached promise rejected waits for that same call, which is
\* the only call (the only issue of the historical queries) of its date, and
\* is delivered the rejection of that call; and each call after the first was
\* started by a request whose date differed from the date cached before it.
C21_FailureCached ==
  /\ \A r \in waiting \cup delivered :
       r.found = "rejected" =>
         /\ comps[r.comp].state = "rejected"
         /\ comps[r.comp].date = r.date
         /\ \A c \in 1..Len(comps) : comps[c].date = r.date => c = r.comp
  /\ \A r \in delivered :
       comps[r.comp].state = "rejected" => r.outcome = "rejected"
  /\ \A c \in 2..Len(comps) :
       /\ comps[c].cachedBefore = comps[c - 1].date
       /\ comps[c].date # comps[c - 1].date

\* C21 witness: the call of the first date was rejected, a request made after
\* the rejection was delivered that rejection, and a request on a later date
\* started a second call.
C21_Witness ==
  /\ Len(comps) = 2
  /\ comps[1].state = "rejected"
  /\ \E r \in delivered :
       /\ r.comp = 1
       /\ r.found = "rejected"
       /\ r.outcome = "rejected"
  /\ \E r \in waiting \cup delivered : r.comp = 2 /\ r.found = "none"

\* C22 as stated: no entity id appears more than once in groups, at any point
\* of any interleaving of the per-bot listings and also when several bots list
\* the same entity; and in a completed snapshot every entity with a non-zero
\* recent average and a stored record appears exactly once, listed by a bot
\* or not.
C22_EachEntityOnce ==
  snap.phase # "idle" =>
    /\ \A id \in GroupIds : Len(EntriesOf(id)) <= 1
    /\ snap.phase = "fulfilled" =>
         \A id \in DOMAIN snap.groupMap :
           ~NoMessages(MessageMap(snap.daily), id) => Len(EntriesOf(id)) = 1

====
